---- MODULE Spec2Model ----
(***************************************************************************)
(* Canonical error taxonomy (src/src/lib.rs) and the resource_error       *)
(* generator (src/canonical-errors-macros/src/lib.rs): the 16-category    *)
(* CanonicalError, the wire Problem, and the two conversions              *)
(* Problem::build and CanonicalError::try_from, over a model of           *)
(* serde_json values.                                                      *)
(***************************************************************************)
EXTENDS Integers, Sequences, FiniteSets, TLC

\* ------------------------------------------------------------------------
\* Bounds of the model
\* ------------------------------------------------------------------------
\* longest Vec (violations, stack_entries) among the enumerated inputs
MaxList == 1

\* ------------------------------------------------------------------------
\* Option and Result
\* ------------------------------------------------------------------------
None == [some |-> FALSE]
Some(x) == [some |-> TRUE, v |-> x]

Ok(x) == [ok |-> TRUE, v |-> x]
\* a serde_json::Error (its text is not modelled)
SerdeErr == [ok |-> FALSE]

\* ------------------------------------------------------------------------
\* serde_json::Value
\* ------------------------------------------------------------------------
\* Each kind of value is a record with one field named after the kind.
JNull == [null |-> TRUE]
JStr(s) == [str |-> s]
JNum(n) == [num |-> n]
JArr(s) == [arr |-> s]
JObj(f) == [obj |-> f]
\* the outcome of an operation that panics
Panic == [panic |-> TRUE]

IsNull(j) == "null" \in DOMAIN j
IsStr(j) == "str" \in DOMAIN j
IsNum(j) == "num" \in DOMAIN j
IsArr(j) == "arr" \in DOMAIN j
IsObj(j) == "obj" \in DOMAIN j

\* Value::get(key): Some(member) of an object that has the key, else None
JGet(val, key) ==
    IF IsObj(val) /\ key \in DOMAIN val.obj THEN Some(val.obj[key]) ELSE None

\* Value::as_str
JAsStr(val) == IF IsStr(val) THEN Some(val.str) ELSE None

\* value[key] = x that leaves a key the object already has untouched
JIndexSet_keep(val, key, x) ==
    IF IsObj(val)
    THEN JObj([k \in (DOMAIN val.obj) \cup {key} |->
                 IF k \in DOMAIN val.obj THEN val.obj[k] ELSE x])
    ELSE IF IsNull(val) THEN JObj([k \in {key} |-> x])
    ELSE Panic

\* IndexMut<&str> for Value: value[key] = x. Inserts into an object,
\* turns null into an object, panics on every other value.
JIndexSet(val, key, x) ==
    IF IsObj(val)
    THEN JObj([k \in (DOMAIN val.obj) \cup {key} |-> IF k = key THEN x ELSE val.obj[k]])
    ELSE IF IsNull(val) THEN JObj([k \in {key} |-> x])
    ELSE Panic

\* serde: a required struct field `key` of an object, deserialised by De
\* (missing key or wrong type is an error; other keys are ignored)
HasStr(val, key) == key \in DOMAIN val.obj /\ IsStr(val.obj[key])

IsStrArr(j) == IsArr(j) /\ \A i \in 1..Len(j.arr) : IsStr(j.arr[i])

\* ------------------------------------------------------------------------
\* Context types: constructors, Serialize, Deserialize
\* The gts_type field is skip_serializing and defaults to the dummy id
\* when deserialised.
\* ------------------------------------------------------------------------
dummy_gts_schema_id == "gts.placeholder~"

\* --- FieldViolation
FieldViolation_new(field, description, reason) ==
    [gts_type |-> "gts.cf.core.errors.field_violation.v1~",
     field |-> field, description |-> description, reason |-> reason]

Ser_FieldViolation(x) ==
    JObj([field |-> JStr(x.field), description |-> JStr(x.description),
          reason |-> JStr(x.reason)])

De_FieldViolation(j) ==
    IF IsObj(j) /\ HasStr(j, "field") /\ HasStr(j, "description") /\ HasStr(j, "reason")
    THEN Ok([gts_type |-> dummy_gts_schema_id, field |-> j.obj["field"].str,
             description |-> j.obj["description"].str, reason |-> j.obj["reason"].str])
    ELSE SerdeErr

\* --- Validation (untagged enum)
Validation_fields(violations) ==
    [shape |-> "FieldViolations", field_violations |-> violations]
Validation_format(msg) == [shape |-> "Format", format |-> msg]
Validation_constraint(msg) == [shape |-> "Constraint", constraint |-> msg]

Ser_Validation(x) ==
    CASE x.shape = "FieldViolations" ->
           JObj([field_violations |->
                   JArr([i \in 1..Len(x.field_violations) |->
                           Ser_FieldViolation(x.field_violations[i])])])
      [] x.shape = "Format" -> JObj([format |-> JStr(x.format)])
      [] x.shape = "Constraint" -> JObj([constraint |-> JStr(x.constraint)])

\* Validation deserialised with its variants tried in the reverse order
De_Validation_reversed(j) ==
    IF ~IsObj(j) THEN SerdeErr
    ELSE IF HasStr(j, "constraint") THEN Ok(Validation_constraint(j.obj["constraint"].str))
    ELSE IF HasStr(j, "format") THEN Ok(Validation_format(j.obj["format"].str))
    ELSE IF /\ "field_violations" \in DOMAIN j.obj
            /\ IsArr(j.obj["field_violations"])
            /\ \A i \in 1..Len(j.obj["field_violations"].arr) :
                  De_FieldViolation(j.obj["field_violations"].arr[i]).ok
    THEN Ok(Validation_fields(
              [i \in 1..Len(j.obj["field_violations"].arr) |->
                  De_FieldViolation(j.obj["field_violations"].arr[i]).v]))
    ELSE SerdeErr

\* serde(untagged): the variants are tried in declaration order and the
\* first that deserialises wins
De_Validation(j) ==
    IF ~IsObj(j) THEN SerdeErr
    ELSE IF /\ "field_violations" \in DOMAIN j.obj
            /\ IsArr(j.obj["field_violations"])
            /\ \A i \in 1..Len(j.obj["field_violations"].arr) :
                  De_FieldViolation(j.obj["field_violations"].arr[i]).ok
    THEN Ok(Validation_fields(
              [i \in 1..Len(j.obj["field_violations"].arr) |->
                  De_FieldViolation(j.obj["field_violations"].arr[i]).v]))
    ELSE IF HasStr(j, "format") THEN Ok(Validation_format(j.obj["format"].str))
    ELSE IF HasStr(j, "constraint") THEN Ok(Validation_constraint(j.obj["constraint"].str))
    ELSE SerdeErr

\* --- ResourceInfo
ResourceInfo_new(resource_type, resource_name) ==
    [gts_type |-> "gts.cf.core.errors.resource_info.v1~",
     resource_type |-> resource_type, resource_name |-> resource_name,
     description |-> "Resource not found"]

\* with_description that keeps the description it finds
ResourceInfo_with_description_noop(self, description) == self

ResourceInfo_with_description(self, description) ==
    [self EXCEPT !.description = description]

Ser_ResourceInfo(x) ==
    JObj([resource_type |-> JStr(x.resource_type),
          resource_name |-> JStr(x.resource_name),
          description |-> JStr(x.description)])

\* ResourceInfo deserialised with the description reset to its default
De_ResourceInfo_default_description(j) ==
    IF IsObj(j) /\ HasStr(j, "resource_type") /\ HasStr(j, "resource_name")
       /\ HasStr(j, "description")
    THEN Ok([gts_type |-> dummy_gts_schema_id,
             resource_type |-> j.obj["resource_type"].str,
             resource_name |-> j.obj["resource_name"].str,
             description |-> "Resource not found"])
    ELSE SerdeErr

De_ResourceInfo(j) ==
    IF IsObj(j) /\ HasStr(j, "resource_type") /\ HasStr(j, "resource_name")
       /\ HasStr(j, "description")
    THEN Ok([gts_type |-> dummy_gts_schema_id,
             resource_type |-> j.obj["resource_type"].str,
             resource_name |-> j.obj["resource_name"].str,
             description |-> j.obj["description"].str])
    ELSE SerdeErr

\* --- ErrorInfo (metadata: a map from strings to strings)
ErrorInfo_new(reason, domain) ==
    [gts_type |-> "gts.cf.core.errors.error_info.v1~",
     reason |-> reason, domain |-> domain, metadata |-> [k \in {} |-> ""]]

ErrorInfo_with_metadata(self, key, value) ==
    [self EXCEPT !.metadata =
        [k \in (DOMAIN self.metadata) \cup {key} |->
            IF k = key THEN value ELSE self.metadata[k]]]

Ser_ErrorInfo(x) ==
    JObj([reason |-> JStr(x.reason), domain |-> JStr(x.domain),
          metadata |-> JObj([k \in DOMAIN x.metadata |-> JStr(x.metadata[k])])])

De_ErrorInfo(j) ==
    IF /\ IsObj(j) /\ HasStr(j, "reason") /\ HasStr(j, "domain")
       /\ "metadata" \in DOMAIN j.obj
       /\ IsObj(j.obj["metadata"])
       /\ \A k \in DOMAIN j.obj["metadata"].obj : IsStr(j.obj["metadata"].obj[k])
    THEN Ok([gts_type |-> dummy_gts_schema_id,
             reason |-> j.obj["reason"].str, domain |-> j.obj["domain"].str,
             metadata |-> [k \in DOMAIN j.obj["metadata"].obj |-> j.obj["metadata"].obj[k].str]])
    ELSE SerdeErr

\* --- QuotaViolation / QuotaFailure
QuotaViolation_new(subject, description) ==
    [gts_type |-> "gts.cf.core.errors.quota_violation.v1~",
     subject |-> subject, description |-> description]

Ser_QuotaViolation(x) ==
    JObj([subject |-> JStr(x.subject), description |-> JStr(x.description)])

De_QuotaViolation(j) ==
    IF IsObj(j) /\ HasStr(j, "subject") /\ HasStr(j, "description")
    THEN Ok([gts_type |-> dummy_gts_schema_id, subject |-> j.obj["subject"].str,
             description |-> j.obj["description"].str])
    ELSE SerdeErr

QuotaFailure_new(violations) ==
    [gts_type |-> "gts.cf.core.errors.quota_failure.v1~", violations |-> violations]

Ser_QuotaFailure(x) ==
    JObj([violations |->
            JArr([i \in 1..Len(x.violations) |-> Ser_QuotaViolation(x.violations[i])])])

De_QuotaFailure(j) ==
    IF /\ IsObj(j) /\ "violations" \in DOMAIN j.obj
       /\ IsArr(j.obj["violations"])
       /\ \A i \in 1..Len(j.obj["violations"].arr) :
             De_QuotaViolation(j.obj["violations"].arr[i]).ok
    THEN Ok([gts_type |-> dummy_gts_schema_id,
             violations |-> [i \in 1..Len(j.obj["violations"].arr) |->
                                De_QuotaViolation(j.obj["violations"].arr[i]).v]])
    ELSE SerdeErr

\* --- PreconditionViolation / PreconditionFailure
\* precondition_type is renamed to "type" on the wire
PreconditionViolation_new(precondition_type, subject, description) ==
    [gts_type |-> "gts.cf.core.errors.precondition_violation.v1~",
     precondition_type |-> precondition_type, subject |-> subject,
     description |-> description]

Ser_PreconditionViolation(x) ==
    JObj([type |-> JStr(x.precondition_type), subject |-> JStr(x.subject),
          description |-> JStr(x.description)])

De_PreconditionViolation(j) ==
    IF IsObj(j) /\ HasStr(j, "type") /\ HasStr(j, "subject") /\ HasStr(j, "description")
    THEN Ok([gts_type |-> dummy_gts_schema_id,
             precondition_type |-> j.obj["type"].str, subject |-> j.obj["subject"].str,
             description |-> j.obj["description"].str])
    ELSE SerdeErr

PreconditionFailure_new(violations) ==
    [gts_type |-> "gts.cf.core.errors.precondition_failure.v1~",
     violations |-> violations]

Ser_PreconditionFailure(x) ==
    JObj([violations |->
            JArr([i \in 1..Len(x.violations) |->
                    Ser_PreconditionViolation(x.violations[i])])])

De_PreconditionFailure(j) ==
    IF /\ IsObj(j) /\ "violations" \in DOMAIN j.obj
       /\ IsArr(j.obj["violations"])
       /\ \A i \in 1..Len(j.obj["violations"].arr) :
             De_PreconditionViolation(j.obj["violations"].arr[i]).ok
    THEN Ok([gts_type |-> dummy_gts_schema_id,
             violations |-> [i \in 1..Len(j.obj["violations"].arr) |->
                                De_PreconditionViolation(j.obj["violations"].arr[i]).v]])
    ELSE SerdeErr

\* --- DebugInfo
DebugInfo_new(detail) ==
    [gts_type |-> "gts.cf.core.errors.debug_info.v1~",
     detail |-> detail, stack_entries |-> <<>>]

DebugInfo_with_stack(self, entries) == [self EXCEPT !.stack_entries = entries]

\* DebugInfo serialised without its stack entries
Ser_DebugInfo_nostack(x) ==
    JObj([detail |-> JStr(x.detail), stack_entries |-> JArr(<<>>)])

Ser_DebugInfo(x) ==
    JObj([detail |-> JStr(x.detail),
          stack_entries |-> JArr([i \in 1..Len(x.stack_entries) |->
                                     JStr(x.stack_entries[i])])])

De_DebugInfo(j) ==
    IF /\ IsObj(j) /\ HasStr(j, "detail")
       /\ "stack_entries" \in DOMAIN j.obj
       /\ IsStrArr(j.obj["stack_entries"])
    THEN Ok([gts_type |-> dummy_gts_schema_id, detail |-> j.obj["detail"].str,
             stack_entries |-> [i \in 1..Len(j.obj["stack_entries"].arr) |->
                                   j.obj["stack_entries"].arr[i].str]])
    ELSE SerdeErr

\* --- RetryInfo (retry_after_seconds: u64)
RetryInfo_after_seconds(seconds) ==
    [gts_type |-> "gts.cf.core.errors.retry_info.v1~", retry_after_seconds |-> seconds]

\* RetryInfo serialised as the bare number
Ser_RetryInfo_bare(x) == JNum(x.retry_after_seconds)

Ser_RetryInfo(x) == JObj([retry_after_seconds |-> JNum(x.retry_after_seconds)])

De_RetryInfo(j) ==
    IF /\ IsObj(j) /\ "retry_after_seconds" \in DOMAIN j.obj
       /\ IsNum(j.obj["retry_after_seconds"])
       /\ j.obj["retry_after_seconds"].num >= 0
    THEN Ok([gts_type |-> dummy_gts_schema_id,
             retry_after_seconds |-> j.obj["retry_after_seconds"].num])
    ELSE SerdeErr

\* --- RequestInfo
RequestInfo_new(request_id) ==
    [gts_type |-> "gts.cf.core.errors.request_info.v1~", request_id |-> request_id]

\* RequestInfo serialised with a resource_type member of its own
Ser_RequestInfo_tagged(x) ==
    JObj([request_id |-> JStr(x.request_id), resource_type |-> JNull])

Ser_RequestInfo(x) == JObj([request_id |-> JStr(x.request_id)])

\* RequestInfo deserialised with deny_unknown_fields
De_RequestInfo_strict(j) ==
    IF IsObj(j) /\ HasStr(j, "request_id") /\ DOMAIN j.obj = {"request_id"}
    THEN Ok([gts_type |-> dummy_gts_schema_id, request_id |-> j.obj["request_id"].str])
    ELSE SerdeErr

De_RequestInfo(j) ==
    IF IsObj(j) /\ HasStr(j, "request_id")
    THEN Ok([gts_type |-> dummy_gts_schema_id, request_id |-> j.obj["request_id"].str])
    ELSE SerdeErr

\* ------------------------------------------------------------------------
\* CanonicalError: a 16-variant enum; every variant carries
\* ctx, message, resource_type: Option<String>, debug_info: Option<DebugInfo>
\* ------------------------------------------------------------------------
Variants ==
    {"Cancelled", "Unknown", "InvalidArgument", "DeadlineExceeded", "NotFound",
     "AlreadyExists", "PermissionDenied", "ResourceExhausted", "FailedPrecondition",
     "Aborted", "OutOfRange", "Unimplemented", "Internal", "ServiceUnavailable",
     "DataLoss", "Unauthenticated"}

\* the context type each variant declares for its ctx field
CtxType(variant) ==
    CASE variant \in {"Cancelled", "DeadlineExceeded"} -> "RequestInfo"
      [] variant \in {"Unknown", "Internal"} -> "DebugInfo"
      [] variant \in {"InvalidArgument", "OutOfRange"} -> "Validation"
      [] variant \in {"NotFound", "AlreadyExists", "DataLoss"} -> "ResourceInfo"
      [] variant \in {"PermissionDenied", "Aborted", "Unimplemented", "Unauthenticated"}
           -> "ErrorInfo"
      [] variant = "ResourceExhausted" -> "QuotaFailure"
      [] variant = "FailedPrecondition" -> "PreconditionFailure"
      [] variant = "ServiceUnavailable" -> "RetryInfo"

Variant(variant, ctx, message) ==
    [cat |-> variant, ctx |-> ctx, message |-> message,
     resource_type |-> None, debug_info |-> None]

\* --- Ergonomic constructors (one per category)
\* cancelled that returns an error already tagged
cancelled_tagged(ctx) ==
    [Variant("Cancelled", ctx, "Operation cancelled by the client")
        EXCEPT !.resource_type = Some("gts.cf.core.users.user.v1")]

cancelled(ctx) == Variant("Cancelled", ctx, "Operation cancelled by the client")

unknown(detail) == Variant("Unknown", DebugInfo_new(detail), detail)

invalid_argument(ctx) ==
    Variant("InvalidArgument", ctx,
            CASE ctx.shape = "FieldViolations" -> "Request validation failed"
              [] ctx.shape = "Format" -> ctx.format
              [] ctx.shape = "Constraint" -> ctx.constraint)

deadline_exceeded(ctx) ==
    Variant("DeadlineExceeded", ctx, "Operation did not complete within the allowed time")

\* not_found that takes its message from the description
not_found_described(ctx) == Variant("NotFound", ctx, ctx.description)

not_found(ctx) == Variant("NotFound", ctx, "Resource not found")

already_exists(ctx) == Variant("AlreadyExists", ctx, ctx.description)

permission_denied(ctx) ==
    Variant("PermissionDenied", ctx, "You do not have permission to perform this operation")

resource_exhausted(ctx) == Variant("ResourceExhausted", ctx, "Quota exceeded")

failed_precondition(ctx) ==
    Variant("FailedPrecondition", ctx, "Operation precondition not met")

aborted(ctx) == Variant("Aborted", ctx, "Operation aborted due to concurrency conflict")

\* out_of_range with invalid_argument's generic message
out_of_range_generic(ctx) ==
    Variant("OutOfRange", ctx,
            CASE ctx.shape = "FieldViolations" -> "Request validation failed"
              [] ctx.shape = "Format" -> ctx.format
              [] ctx.shape = "Constraint" -> ctx.constraint)

out_of_range(ctx) ==
    Variant("OutOfRange", ctx,
            CASE ctx.shape = "FieldViolations" -> "Value out of range"
              [] ctx.shape = "Format" -> ctx.format
              [] ctx.shape = "Constraint" -> ctx.constraint)

unimplemented(ctx) == Variant("Unimplemented", ctx, "This operation is not implemented")

internal(ctx) ==
    Variant("Internal", ctx, "An internal error occurred. Please retry later.")

service_unavailable(ctx) ==
    Variant("ServiceUnavailable", ctx, "Service temporarily unavailable")

data_loss(ctx) == Variant("DataLoss", ctx, ctx.description)

unauthenticated(ctx) == Variant("Unauthenticated", ctx, "Authentication required")

\* --- Builder methods
\* with_message that also drops the resource type
with_message_untag(self, msg) == [self EXCEPT !.message = msg, !.resource_type = None]

with_message(self, msg) == [self EXCEPT !.message = msg]

with_resource_type(self, rt) == [self EXCEPT !.resource_type = Some(rt)]

with_debug_info(self, info) == [self EXCEPT !.debug_info = Some(info)]

\* --- Accessors
message(self) == self.message

resource_type(self) == self.resource_type

debug_info(self) == self.debug_info

\* --- GTS catalog
\* gts_type that emits category_name()'s fragment for ServiceUnavailable
gts_type_unavailable(self) ==
    CASE self.cat = "Cancelled" -> "gts.cf.core.errors.err.v1~cf.core.errors.cancelled.v1~"
      [] self.cat = "Unknown" -> "gts.cf.core.errors.err.v1~cf.core.errors.unknown.v1~"
      [] self.cat = "InvalidArgument" ->
           "gts.cf.core.errors.err.v1~cf.core.errors.invalid_argument.v1~"
      [] self.cat = "DeadlineExceeded" ->
           "gts.cf.core.errors.err.v1~cf.core.errors.deadline_exceeded.v1~"
      [] self.cat = "NotFound" -> "gts.cf.core.errors.err.v1~cf.core.errors.not_found.v1~"
      [] self.cat = "AlreadyExists" ->
           "gts.cf.core.errors.err.v1~cf.core.errors.already_exists.v1~"
      [] self.cat = "PermissionDenied" ->
           "gts.cf.core.errors.err.v1~cf.core.errors.permission_denied.v1~"
      [] self.cat = "ResourceExhausted" ->
           "gts.cf.core.errors.err.v1~cf.core.errors.resource_exhausted.v1~"
      [] self.cat = "FailedPrecondition" ->
           "gts.cf.core.errors.err.v1~cf.core.errors.failed_precondition.v1~"
      [] self.cat = "Aborted" -> "gts.cf.core.errors.err.v1~cf.core.errors.aborted.v1~"
      [] self.cat = "OutOfRange" ->
           "gts.cf.core.errors.err.v1~cf.core.errors.out_of_range.v1~"
      [] self.cat = "Unimplemented" ->
           "gts.cf.core.errors.err.v1~cf.core.errors.unimplemented.v1~"
      [] self.cat = "Internal" -> "gts.cf.core.errors.err.v1~cf.core.errors.internal.v1~"
      [] self.cat = "ServiceUnavailable" ->
           "gts.cf.core.errors.err.v1~cf.core.errors.unavailable.v1~"
      [] self.cat = "DataLoss" -> "gts.cf.core.errors.err.v1~cf.core.errors.data_loss.v1~"
      [] self.cat = "Unauthenticated" ->
           "gts.cf.core.errors.err.v1~cf.core.errors.unauthenticated.v1~"

gts_type(self) ==
    CASE self.cat = "Cancelled" -> "gts.cf.core.errors.err.v1~cf.core.errors.cancelled.v1~"
      [] self.cat = "Unknown" -> "gts.cf.core.errors.err.v1~cf.core.errors.unknown.v1~"
      [] self.cat = "InvalidArgument" ->
           "gts.cf.core.errors.err.v1~cf.core.errors.invalid_argument.v1~"
      [] self.cat = "DeadlineExceeded" ->
           "gts.cf.core.errors.err.v1~cf.core.errors.deadline_exceeded.v1~"
      [] self.cat = "NotFound" -> "gts.cf.core.errors.err.v1~cf.core.errors.not_found.v1~"
      [] self.cat = "AlreadyExists" ->
           "gts.cf.core.errors.err.v1~cf.core.errors.already_exists.v1~"
      [] self.cat = "PermissionDenied" ->
           "gts.cf.core.errors.err.v1~cf.core.errors.permission_denied.v1~"
      [] self.cat = "ResourceExhausted" ->
           "gts.cf.core.errors.err.v1~cf.core.errors.resource_exhausted.v1~"
      [] self.cat = "FailedPrecondition" ->
           "gts.cf.core.errors.err.v1~cf.core.errors.failed_precondition.v1~"
      [] self.cat = "Aborted" -> "gts.cf.core.errors.err.v1~cf.core.errors.aborted.v1~"
      [] self.cat = "OutOfRange" ->
           "gts.cf.core.errors.err.v1~cf.core.errors.out_of_range.v1~"
      [] self.cat = "Unimplemented" ->
           "gts.cf.core.errors.err.v1~cf.core.errors.unimplemented.v1~"
      [] self.cat = "Internal" -> "gts.cf.core.errors.err.v1~cf.core.errors.internal.v1~"
      [] self.cat = "ServiceUnavailable" ->
           "gts.cf.core.errors.err.v1~cf.core.errors.service_unavailable.v1~"
      [] self.cat = "DataLoss" -> "gts.cf.core.errors.err.v1~cf.core.errors.data_loss.v1~"
      [] self.cat = "Unauthenticated" ->
           "gts.cf.core.errors.err.v1~cf.core.errors.unauthenticated.v1~"

\* status_code with failed_precondition on HTTP 412
status_code_412(self) ==
    CASE self.cat = "Cancelled" -> 499
      [] self.cat = "Unknown" -> 500
      [] self.cat = "InvalidArgument" -> 400
      [] self.cat = "DeadlineExceeded" -> 504
      [] self.cat = "NotFound" -> 404
      [] self.cat = "AlreadyExists" -> 409
      [] self.cat = "PermissionDenied" -> 403
      [] self.cat = "ResourceExhausted" -> 429
      [] self.cat = "FailedPrecondition" -> 412
      [] self.cat = "Aborted" -> 409
      [] self.cat = "OutOfRange" -> 400
      [] self.cat = "Unimplemented" -> 501
      [] self.cat = "Internal" -> 500
      [] self.cat = "ServiceUnavailable" -> 503
      [] self.cat = "DataLoss" -> 500
      [] self.cat = "Unauthenticated" -> 401

status_code(self) ==
    CASE self.cat = "Cancelled" -> 499
      [] self.cat = "Unknown" -> 500
      [] self.cat = "InvalidArgument" -> 400
      [] self.cat = "DeadlineExceeded" -> 504
      [] self.cat = "NotFound" -> 404
      [] self.cat = "AlreadyExists" -> 409
      [] self.cat = "PermissionDenied" -> 403
      [] self.cat = "ResourceExhausted" -> 429
      [] self.cat = "FailedPrecondition" -> 400
      [] self.cat = "Aborted" -> 409
      [] self.cat = "OutOfRange" -> 400
      [] self.cat = "Unimplemented" -> 501
      [] self.cat = "Internal" -> 500
      [] self.cat = "ServiceUnavailable" -> 503
      [] self.cat = "DataLoss" -> 500
      [] self.cat = "Unauthenticated" -> 401

title(self) ==
    CASE self.cat = "Cancelled" -> "Cancelled"
      [] self.cat = "Unknown" -> "Unknown"
      [] self.cat = "InvalidArgument" -> "Invalid Argument"
      [] self.cat = "DeadlineExceeded" -> "Deadline Exceeded"
      [] self.cat = "NotFound" -> "Not Found"
      [] self.cat = "AlreadyExists" -> "Already Exists"
      [] self.cat = "PermissionDenied" -> "Permission Denied"
      [] self.cat = "ResourceExhausted" -> "Resource Exhausted"
      [] self.cat = "FailedPrecondition" -> "Failed Precondition"
      [] self.cat = "Aborted" -> "Aborted"
      [] self.cat = "OutOfRange" -> "Out of Range"
      [] self.cat = "Unimplemented" -> "Unimplemented"
      [] self.cat = "Internal" -> "Internal"
      [] self.cat = "ServiceUnavailable" -> "Unavailable"
      [] self.cat = "DataLoss" -> "Data Loss"
      [] self.cat = "Unauthenticated" -> "Unauthenticated"

category_name(self) ==
    CASE self.cat = "Cancelled" -> "cancelled"
      [] self.cat = "Unknown" -> "unknown"
      [] self.cat = "InvalidArgument" -> "invalid_argument"
      [] self.cat = "DeadlineExceeded" -> "deadline_exceeded"
      [] self.cat = "NotFound" -> "not_found"
      [] self.cat = "AlreadyExists" -> "already_exists"
      [] self.cat = "PermissionDenied" -> "permission_denied"
      [] self.cat = "ResourceExhausted" -> "resource_exhausted"
      [] self.cat = "FailedPrecondition" -> "failed_precondition"
      [] self.cat = "Aborted" -> "aborted"
      [] self.cat = "OutOfRange" -> "out_of_range"
      [] self.cat = "Unimplemented" -> "unimplemented"
      [] self.cat = "Internal" -> "internal"
      [] self.cat = "ServiceUnavailable" -> "unavailable"
      [] self.cat = "DataLoss" -> "data_loss"
      [] self.cat = "Unauthenticated" -> "unauthenticated"

\* impl Display: "{category_name}: {message}"
Display(self) == category_name(self) \o ": " \o message(self)

\* ------------------------------------------------------------------------
\* Problem (RFC 9457)
\* ------------------------------------------------------------------------
\* serde_json::to_value(ctx) of the context a variant carries
to_value(T, x) ==
    CASE T = "RequestInfo" -> Ser_RequestInfo(x)
      [] T = "DebugInfo" -> Ser_DebugInfo(x)
      [] T = "Validation" -> Ser_Validation(x)
      [] T = "ResourceInfo" -> Ser_ResourceInfo(x)
      [] T = "ErrorInfo" -> Ser_ErrorInfo(x)
      [] T = "QuotaFailure" -> Ser_QuotaFailure(x)
      [] T = "PreconditionFailure" -> Ser_PreconditionFailure(x)
      [] T = "RetryInfo" -> Ser_RetryInfo(x)

\* serde_json::from_value::<T>(j)
from_value(T, j) ==
    CASE T = "RequestInfo" -> De_RequestInfo(j)
      [] T = "DebugInfo" -> De_DebugInfo(j)
      [] T = "Validation" -> De_Validation(j)
      [] T = "ResourceInfo" -> De_ResourceInfo(j)
      [] T = "ErrorInfo" -> De_ErrorInfo(j)
      [] T = "QuotaFailure" -> De_QuotaFailure(j)
      [] T = "PreconditionFailure" -> De_PreconditionFailure(j)
      [] T = "RetryInfo" -> De_RetryInfo(j)

\* build that writes the title where the message belongs
build_default_detail(e, include_debug) ==
    LET ctx0 == to_value(CtxType(e.cat), e.ctx)
        context == IF resource_type(e).some
                   THEN JIndexSet(ctx0, "resource_type", JStr(resource_type(e).v))
                   ELSE ctx0
        debug_value == IF include_debug /\ debug_info(e).some
                       THEN Some(Ser_DebugInfo(debug_info(e).v))
                       ELSE None
    IN  IF context = Panic THEN Panic
        ELSE [problem_type |-> gts_type(e),
              title |-> title(e),
              status |-> status_code(e),
              detail |-> title(e),
              instance |-> None,
              trace_id |-> None,
              context |-> context,
              debug |-> debug_value]

build(e, include_debug) ==
    LET ctx0 == to_value(CtxType(e.cat), e.ctx)
        context == IF resource_type(e).some
                   THEN JIndexSet(ctx0, "resource_type", JStr(resource_type(e).v))
                   ELSE ctx0
        debug_value == IF include_debug /\ debug_info(e).some
                       THEN Some(Ser_DebugInfo(debug_info(e).v))
                       ELSE None
    IN  IF context = Panic THEN Panic
        ELSE [problem_type |-> gts_type(e),
              title |-> title(e),
              status |-> status_code(e),
              detail |-> message(e),
              instance |-> None,
              trace_id |-> None,
              context |-> context,
              debug |-> debug_value]

\* from_error that passes include_debug = true
from_error_leaky(e) == build(e, TRUE)

\* production mode: debug info is always omitted
from_error(e) == build(e, FALSE)

\* from_error_debug that passes include_debug = false
from_error_debug_off(e) == build(e, FALSE)

\* debug mode
from_error_debug(e) == build(e, TRUE)

\* impl From<CanonicalError> for Problem
Problem_from(e) == from_error(e)

\* Problem serialised without skip_serializing_if: an absent optional is
\* written as null
Ser_Problem_nulls(p) ==
    JObj([k \in {"type", "title", "status", "detail", "context",
                 "instance", "trace_id", "debug"} |->
            CASE k = "type" -> JStr(p.problem_type)
              [] k = "title" -> JStr(p.title)
              [] k = "status" -> JNum(p.status)
              [] k = "detail" -> JStr(p.detail)
              [] k = "context" -> p.context
              [] k = "instance" -> IF p.instance.some THEN JStr(p.instance.v) ELSE JNull
              [] k = "trace_id" -> IF p.trace_id.some THEN JStr(p.trace_id.v) ELSE JNull
              [] k = "debug" -> IF p.debug.some THEN p.debug.v ELSE JNull])

\* derive(Serialize) for Problem: "type" is the renamed problem_type; the
\* three Option fields are skipped when None
Ser_Problem(p) ==
    LET keys == {"type", "title", "status", "detail", "context"}
                  \cup (IF p.instance.some THEN {"instance"} ELSE {})
                  \cup (IF p.trace_id.some THEN {"trace_id"} ELSE {})
                  \cup (IF p.debug.some THEN {"debug"} ELSE {})
    IN  JObj([k \in keys |->
                CASE k = "type" -> JStr(p.problem_type)
                  [] k = "title" -> JStr(p.title)
                  [] k = "status" -> JNum(p.status)
                  [] k = "detail" -> JStr(p.detail)
                  [] k = "context" -> p.context
                  [] k = "instance" -> JStr(p.instance.v)
                  [] k = "trace_id" -> JStr(p.trace_id.v)
                  [] k = "debug" -> p.debug.v])

\* ------------------------------------------------------------------------
\* Problem -> CanonicalError
\* ------------------------------------------------------------------------
InvalidType(s) == [ok |-> FALSE, kind |-> "InvalidType", arg |-> s]
UnknownCategory(c) == [ok |-> FALSE, kind |-> "UnknownCategory", arg |-> c]
ContextDeserializationFailed(category) ==
    [ok |-> FALSE, kind |-> "ContextDeserializationFailed", category |-> category]

GTS_TYPE_PREFIX == "gts.cf.core.errors.err.v1~cf.core.errors."
GTS_TYPE_SUFFIX == ".v1~"

\* str::strip_prefix / str::strip_suffix
strip_prefix(s, p) ==
    IF Len(s) >= Len(p) /\ SubSeq(s, 1, Len(p)) = p
    THEN Some(SubSeq(s, Len(p) + 1, Len(s)))
    ELSE None

\* strip_suffix that cuts one character too few
strip_suffix_short(s, p) ==
    IF Len(s) >= Len(p) /\ SubSeq(s, Len(s) - Len(p) + 1, Len(s)) = p
    THEN Some(SubSeq(s, 1, Len(s) - Len(p) + 1))
    ELSE None

strip_suffix(s, p) ==
    IF Len(s) >= Len(p) /\ SubSeq(s, Len(s) - Len(p) + 1, Len(s)) = p
    THEN Some(SubSeq(s, 1, Len(s) - Len(p)))
    ELSE None

\* parse_category that reports the remainder, not the whole type string,
\* when the suffix is missing
parse_category_remainder(problem_type) ==
    LET without_prefix == strip_prefix(problem_type, GTS_TYPE_PREFIX)
    IN  IF ~without_prefix.some THEN InvalidType(problem_type)
        ELSE LET category == strip_suffix(without_prefix.v, GTS_TYPE_SUFFIX)
             IN  IF ~category.some THEN InvalidType(without_prefix.v)
                 ELSE Ok(category.v)

parse_category(problem_type) ==
    LET without_prefix == strip_prefix(problem_type, GTS_TYPE_PREFIX)
    IN  IF ~without_prefix.some THEN InvalidType(problem_type)
        ELSE LET category == strip_suffix(without_prefix.v, GTS_TYPE_SUFFIX)
             IN  IF ~category.some THEN InvalidType(problem_type)
                 ELSE Ok(category.v)

\* extract_resource_type that never finds the key
extract_resource_type_none(context) == None

extract_resource_type(context) ==
    LET got == JGet(context, "resource_type")
    IN  IF got.some THEN JAsStr(got.v) ELSE None

\* deser_ctx that reports a failed context as an unknown category
deser_ctx_unknown(T, context, category) ==
    LET r == from_value(T, context)
    IN  IF r.ok THEN r ELSE UnknownCategory(category)

deser_ctx(T, context, category) ==
    LET r == from_value(T, context)
    IN  IF r.ok THEN r ELSE ContextDeserializationFailed(category)

\* a match whose fallthrough arm builds an Unknown error
MatchArm_fallback(category) ==
    CASE category = "cancelled" -> Some("Cancelled")
      [] category = "unknown" -> Some("Unknown")
      [] category = "invalid_argument" -> Some("InvalidArgument")
      [] category = "deadline_exceeded" -> Some("DeadlineExceeded")
      [] category = "not_found" -> Some("NotFound")
      [] category = "already_exists" -> Some("AlreadyExists")
      [] category = "permission_denied" -> Some("PermissionDenied")
      [] category = "resource_exhausted" -> Some("ResourceExhausted")
      [] category = "failed_precondition" -> Some("FailedPrecondition")
      [] category = "aborted" -> Some("Aborted")
      [] category = "out_of_range" -> Some("OutOfRange")
      [] category = "unimplemented" -> Some("Unimplemented")
      [] category = "internal" -> Some("Internal")
      [] category = "service_unavailable" -> Some("ServiceUnavailable")
      [] category = "data_loss" -> Some("DataLoss")
      [] category = "unauthenticated" -> Some("Unauthenticated")
      [] OTHER -> Some("Unknown")

\* the arms of the match on the category string in try_from
MatchArm(category) ==
    CASE category = "cancelled" -> Some("Cancelled")
      [] category = "unknown" -> Some("Unknown")
      [] category = "invalid_argument" -> Some("InvalidArgument")
      [] category = "deadline_exceeded" -> Some("DeadlineExceeded")
      [] category = "not_found" -> Some("NotFound")
      [] category = "already_exists" -> Some("AlreadyExists")
      [] category = "permission_denied" -> Some("PermissionDenied")
      [] category = "resource_exhausted" -> Some("ResourceExhausted")
      [] category = "failed_precondition" -> Some("FailedPrecondition")
      [] category = "aborted" -> Some("Aborted")
      [] category = "out_of_range" -> Some("OutOfRange")
      [] category = "unimplemented" -> Some("Unimplemented")
      [] category = "internal" -> Some("Internal")
      [] category = "service_unavailable" -> Some("ServiceUnavailable")
      [] category = "data_loss" -> Some("DataLoss")
      [] category = "unauthenticated" -> Some("Unauthenticated")
      [] OTHER -> None

\* try_from that drops a debug field it cannot deserialise
try_from_lenient(problem) ==
    LET parsed == parse_category(problem.problem_type)
    IN  IF ~parsed.ok THEN parsed
        ELSE
        LET category == parsed.v
            rt == extract_resource_type(problem.context)
            dbg == IF problem.debug.some THEN De_DebugInfo(problem.debug.v) ELSE SerdeErr
            arm == MatchArm(category)
        IN  IF ~arm.some THEN UnknownCategory(category)
            ELSE LET ctx == deser_ctx(CtxType(arm.v), problem.context, category)
                 IN  IF ~ctx.ok THEN ctx
                     ELSE Ok([cat |-> arm.v,
                              ctx |-> ctx.v,
                              message |-> problem.detail,
                              resource_type |-> rt,
                              debug_info |-> IF problem.debug.some /\ dbg.ok
                                             THEN Some(dbg.v) ELSE None])

try_from(problem) ==
    LET parsed == parse_category(problem.problem_type)
    IN  IF ~parsed.ok THEN parsed
        ELSE
        LET category == parsed.v
            rt == extract_resource_type(problem.context)
            dbg == IF problem.debug.some THEN De_DebugInfo(problem.debug.v) ELSE SerdeErr
            arm == MatchArm(category)
        IN  IF problem.debug.some /\ ~dbg.ok
            THEN ContextDeserializationFailed(category)
            ELSE IF ~arm.some THEN UnknownCategory(category)
            ELSE LET ctx == deser_ctx(CtxType(arm.v), problem.context, category)
                 IN  IF ~ctx.ok THEN ctx
                     ELSE Ok([cat |-> arm.v,
                              ctx |-> ctx.v,
                              message |-> problem.detail,
                              resource_type |-> rt,
                              debug_info |-> IF problem.debug.some
                                             THEN Some(dbg.v) ELSE None])

\* ------------------------------------------------------------------------
\* #[resource_error(gts_type)]: the associated functions of the generated
\* struct
\* ------------------------------------------------------------------------
GeneratedFns ==
    {"not_found", "already_exists", "data_loss", "invalid_argument",
     "permission_denied", "unauthenticated", "resource_exhausted",
     "failed_precondition", "aborted", "out_of_range", "unimplemented",
     "internal", "unknown", "deadline_exceeded", "cancelled"}

\* a generator whose permission_denied forgets the tag
resource_error_untagged(tag, fn, arg) ==
    CASE fn = "not_found" ->
           with_resource_type(not_found(ResourceInfo_new(tag, arg)), tag)
      [] fn = "already_exists" ->
           with_resource_type(
               already_exists(ResourceInfo_with_description(
                   ResourceInfo_new(tag, arg), "Resource already exists")), tag)
      [] fn = "data_loss" ->
           with_resource_type(
               data_loss(ResourceInfo_with_description(
                   ResourceInfo_new(tag, arg), "Data loss detected")), tag)
      [] fn = "invalid_argument" -> with_resource_type(invalid_argument(arg), tag)
      [] fn = "permission_denied" -> permission_denied(arg)
      [] fn = "unauthenticated" -> with_resource_type(unauthenticated(arg), tag)
      [] fn = "resource_exhausted" -> with_resource_type(resource_exhausted(arg), tag)
      [] fn = "failed_precondition" -> with_resource_type(failed_precondition(arg), tag)
      [] fn = "aborted" -> with_resource_type(aborted(arg), tag)
      [] fn = "out_of_range" -> with_resource_type(out_of_range(arg), tag)
      [] fn = "unimplemented" -> with_resource_type(unimplemented(arg), tag)
      [] fn = "internal" -> with_resource_type(internal(arg), tag)
      [] fn = "unknown" -> with_resource_type(unknown(arg), tag)
      [] fn = "deadline_exceeded" -> with_resource_type(deadline_exceeded(arg), tag)
      [] fn = "cancelled" -> with_resource_type(cancelled(arg), tag)

resource_error(tag, fn, arg) ==
    CASE fn = "not_found" ->
           with_resource_type(not_found(ResourceInfo_new(tag, arg)), tag)
      [] fn = "already_exists" ->
           with_resource_type(
               already_exists(ResourceInfo_with_description(
                   ResourceInfo_new(tag, arg), "Resource already exists")), tag)
      [] fn = "data_loss" ->
           with_resource_type(
               data_loss(ResourceInfo_with_description(
                   ResourceInfo_new(tag, arg), "Data loss detected")), tag)
      [] fn = "invalid_argument" -> with_resource_type(invalid_argument(arg), tag)
      [] fn = "permission_denied" -> with_resource_type(permission_denied(arg), tag)
      [] fn = "unauthenticated" -> with_resource_type(unauthenticated(arg), tag)
      [] fn = "resource_exhausted" -> with_resource_type(resource_exhausted(arg), tag)
      [] fn = "failed_precondition" -> with_resource_type(failed_precondition(arg), tag)
      [] fn = "aborted" -> with_resource_type(aborted(arg), tag)
      [] fn = "out_of_range" -> with_resource_type(out_of_range(arg), tag)
      [] fn = "unimplemented" -> with_resource_type(unimplemented(arg), tag)
      [] fn = "internal" -> with_resource_type(internal(arg), tag)
      [] fn = "unknown" -> with_resource_type(unknown(arg), tag)
      [] fn = "deadline_exceeded" -> with_resource_type(deadline_exceeded(arg), tag)
      [] fn = "cancelled" -> with_resource_type(cancelled(arg), tag)

\* ------------------------------------------------------------------------
\* Inputs: the values callers pass to the constructors and builders, and
\* the Problems that arrive from the wire
\* ------------------------------------------------------------------------
BoundedSeq(S, n) == UNION {[1..k -> S] : k \in 0..n}

ResourceTypes == {"gts.cf.core.users.user.v1", "gts.cf.core.data.backup.v1"}
ResourceNames == {"user-123"}
Messages == {"custom detail", "User not found"}
Details == {"query returned 0 rows", "Resource not found"}

RequestInfos == {RequestInfo_new("req-1")}

DebugInfos ==
    {DebugInfo_with_stack(DebugInfo_new("connection reset"), s) :
        s \in BoundedSeq({"repo.rs:42"}, MaxList)}

FieldViolations == {FieldViolation_new("email", "is required", "REQUIRED")}

Validations ==
    {Validation_fields(s) : s \in BoundedSeq(FieldViolations, MaxList)}
      \cup {Validation_format("bad json"), Validation_constraint("too many items")}

ResourceInfos ==
    {ResourceInfo_new(t, n) : t \in ResourceTypes, n \in ResourceNames}
      \cup {ResourceInfo_with_description(ResourceInfo_new(t, n), "User not found in database") :
              t \in ResourceTypes, n \in ResourceNames}

ErrorInfos ==
    {ErrorInfo_new("CROSS_TENANT_ACCESS", "auth.cyberfabric.io"),
     ErrorInfo_with_metadata(ErrorInfo_new("CROSS_TENANT_ACCESS", "auth.cyberfabric.io"),
                             "tenant_id", "t-1")}

QuotaFailures ==
    {QuotaFailure_new(s) :
        s \in BoundedSeq({QuotaViolation_new("requests", "Rate limit exceeded")}, MaxList)}

PreconditionFailures ==
    {PreconditionFailure_new(s) :
        s \in BoundedSeq({PreconditionViolation_new("STATE", "document.status",
                                                    "Document is already published")},
                         MaxList)}

RetryInfos == {RetryInfo_after_seconds(0), RetryInfo_after_seconds(30)}

Constructors == GeneratedFns \cup {"service_unavailable"}

\* the arguments enumerated for the constructor named fn
Args(fn) ==
    CASE fn \in {"cancelled", "deadline_exceeded"} -> RequestInfos
      [] fn = "unknown" -> Details
      [] fn = "internal" -> DebugInfos
      [] fn \in {"invalid_argument", "out_of_range"} -> Validations
      [] fn \in {"not_found", "already_exists", "data_loss"} -> ResourceInfos
      [] fn \in {"permission_denied", "aborted", "unimplemented", "unauthenticated"}
           -> ErrorInfos
      [] fn = "resource_exhausted" -> QuotaFailures
      [] fn = "failed_precondition" -> PreconditionFailures
      [] fn = "service_unavailable" -> RetryInfos

\* the arguments enumerated for the generated function named fn
GenArgs(fn) ==
    IF fn \in {"not_found", "already_exists", "data_loss"} THEN ResourceNames
    ELSE Args(fn)

\* CanonicalError::fn(arg)
construct(fn, arg) ==
    CASE fn = "cancelled" -> cancelled(arg)
      [] fn = "unknown" -> unknown(arg)
      [] fn = "invalid_argument" -> invalid_argument(arg)
      [] fn = "deadline_exceeded" -> deadline_exceeded(arg)
      [] fn = "not_found" -> not_found(arg)
      [] fn = "already_exists" -> already_exists(arg)
      [] fn = "permission_denied" -> permission_denied(arg)
      [] fn = "resource_exhausted" -> resource_exhausted(arg)
      [] fn = "failed_precondition" -> failed_precondition(arg)
      [] fn = "aborted" -> aborted(arg)
      [] fn = "out_of_range" -> out_of_range(arg)
      [] fn = "unimplemented" -> unimplemented(arg)
      [] fn = "internal" -> internal(arg)
      [] fn = "service_unavailable" -> service_unavailable(arg)
      [] fn = "data_loss" -> data_loss(arg)
      [] fn = "unauthenticated" -> unauthenticated(arg)

\* type strings seen on the wire: the 16 registry names and four others
\* between the fixed prefix and suffix, and five strings that are not of
\* that form
WireNames ==
    Constructors \cup {"nonexistent", "", "unavailable", "NOT_FOUND"}

MalformedTypes ==
    {"not-a-gts-uri", "",
     GTS_TYPE_PREFIX \o "v1~",
     GTS_TYPE_PREFIX \o "not_found",
     "cf.core.errors.not_found" \o GTS_TYPE_SUFFIX}

WireTypes ==
    {GTS_TYPE_PREFIX \o n \o GTS_TYPE_SUFFIX : n \in WireNames} \cup MalformedTypes

\* context values seen on the wire: serialised contexts of every type,
\* with and without an extra resource_type key, and values that fit no type
WireContexts ==
    LET good == {Ser_RequestInfo(RequestInfo_new("req-1")),
                 Ser_DebugInfo(DebugInfo_new("bug")),
                 Ser_Validation(Validation_format("bad json")),
                 Ser_Validation(Validation_fields(<<>>)),
                 Ser_ResourceInfo(ResourceInfo_new("gts.cf.core.users.user.v1", "user-123")),
                 Ser_ErrorInfo(ErrorInfo_new("R", "D")),
                 Ser_QuotaFailure(QuotaFailure_new(<<>>)),
                 Ser_PreconditionFailure(PreconditionFailure_new(<<>>)),
                 Ser_RetryInfo(RetryInfo_after_seconds(30))}
    IN  good
          \cup {JIndexSet(c, "resource_type", JStr("gts.cf.core.data.backup.v1")) : c \in good}
          \cup {JObj([k \in {} |-> JNull]),
                JObj([unexpected |-> JStr("shape")]),
                JObj([resource_type |-> JNum(7), resource_name |-> JStr("n"),
                      description |-> JStr("d")]),
                JObj([resource_type |-> JStr("t"), resource_name |-> JStr("n")]),
                JObj([field_violations |-> JStr("oops"), format |-> JStr("f"),
                      constraint |-> JStr("c")]),
                JObj([format |-> JNum(1), constraint |-> JStr("c")]),
                JObj([field_violations |-> JArr(<<>>), format |-> JStr("f"),
                      constraint |-> JStr("c")]),
                JObj([format |-> JStr("f"), constraint |-> JStr("c"),
                      resource_type |-> JStr("gts.cf.core.users.user.v1")]),
                JObj([request_id |-> JStr("req-1"), resource_type |-> JNum(7)]),
                JObj([reason |-> JStr("R"), domain |-> JStr("D")]),
                JObj([retry_after_seconds |-> JNum(-1)]),
                JObj([detail |-> JStr("bug"), stack_entries |-> JArr(<<JNum(1)>>)]),
                JStr("shape"),
                JNull}

WireDebugs ==
    {None,
     Some(Ser_DebugInfo(DebugInfo_with_stack(DebugInfo_new("trace"), <<"repo.rs:42">>))),
     Some(JObj([detail |-> JStr("no stack")])),
     Some(JStr("oops"))}

\* title and status as sent: they need not agree with the type
WireHeads == {[title |-> "Not Found", status |-> 404], [title |-> "Unknown", status |-> 500]}

WireOptionals == {None, Some("req-7")}

WireProblems ==
    {[problem_type |-> ty, title |-> h.title, status |-> h.status, detail |-> "test",
      instance |-> o, trace_id |-> o, context |-> c, debug |-> d] :
        ty \in WireTypes, h \in WireHeads, o \in WireOptionals,
        c \in WireContexts, d \in WireDebugs}

\* ------------------------------------------------------------------------
\* State: one error value being built, the Problem made from it or
\* received from the wire, and the outcome of converting that Problem back
\* ------------------------------------------------------------------------
VARIABLES
    err,        \* Option<CanonicalError>: the error in hand
    origin,     \* how err was obtained (constructor and argument)
    problem,    \* Option<Problem>: the Problem in hand (or Panic)
    mode,       \* which conversion made problem, or "wire"
    result      \* Option<Result<CanonicalError, ProblemConversionError>>

vars == <<err, origin, problem, mode, result>>

NoOrigin == [kind |-> "none"]

Init ==
    /\ err = None
    /\ origin = NoOrigin
    /\ problem = None
    /\ mode = "none"
    /\ result = None

\* a new or changed error value: the Problem in hand is no longer its image
Fresh == problem' = None /\ mode' = "none" /\ result' = None

\* CanonicalError::fn(arg), by a caller with nothing in hand yet (the value
\* a constructor returns does not depend on the state)
Construct ==
    \E fn \in Constructors : \E arg \in Args(fn) :
        /\ ~err.some
        /\ ~problem.some
        /\ err' = Some(construct(fn, arg))
        /\ origin' = [kind |-> "direct", call |-> [f \in {fn} |-> arg]]
        /\ Fresh

\* Generated::fn(arg) of a struct annotated #[resource_error(tag)], by a
\* caller with nothing in hand yet
Generate ==
    \E tag \in ResourceTypes : \E fn \in GeneratedFns : \E arg \in GenArgs(fn) :
        /\ ~err.some
        /\ ~problem.some
        /\ err' = Some(resource_error(tag, fn, arg))
        /\ origin' = [kind |-> "generated", tag |-> tag, call |-> [f \in {fn} |-> arg]]
        /\ Fresh

WithMessage ==
    /\ err.some
    /\ \E m \in Messages : err' = Some(with_message(err.v, m))
    /\ UNCHANGED origin
    /\ Fresh

WithResourceType ==
    /\ err.some
    /\ \E rt \in ResourceTypes : err' = Some(with_resource_type(err.v, rt))
    /\ UNCHANGED origin
    /\ Fresh

WithDebugInfo ==
    /\ err.some
    /\ \E d \in DebugInfos : err' = Some(with_debug_info(err.v, d))
    /\ UNCHANGED origin
    /\ Fresh

FromError ==
    /\ err.some
    /\ problem' = Some(from_error(err.v))
    /\ mode' = "from_error"
    /\ result' = None
    /\ UNCHANGED <<err, origin>>

FromErrorDebug ==
    /\ err.some
    /\ problem' = Some(from_error_debug(err.v))
    /\ mode' = "from_error_debug"
    /\ result' = None
    /\ UNCHANGED <<err, origin>>

From ==
    /\ err.some
    /\ problem' = Some(Problem_from(err.v))
    /\ mode' = "from"
    /\ result' = None
    /\ UNCHANGED <<err, origin>>

\* a Problem deserialised from a received JSON document, by a caller with
\* nothing in hand yet (what is received does not depend on the state)
Receive ==
    /\ ~err.some
    /\ ~problem.some
    /\ \E p \in WireProblems : problem' = Some(p)
    /\ mode' = "wire"
    /\ err' = None
    /\ origin' = NoOrigin
    /\ result' = None

\* CanonicalError::try_from(problem)
TryFrom ==
    /\ problem.some
    /\ problem.v # Panic
    /\ result' = Some(try_from(problem.v))
    /\ UNCHANGED <<err, origin, problem, mode>>

\* the caller goes on with the reconstructed error
Adopt ==
    /\ result.some
    /\ result.v.ok
    /\ err' = Some(result.v.v)
    /\ origin' = [kind |-> "try_from"]
    /\ Fresh

Next ==
    \/ Construct
    \/ Generate
    \/ WithMessage
    \/ WithResourceType
    \/ WithDebugInfo
    \/ FromError
    \/ FromErrorDebug
    \/ From
    \/ Receive
    \/ TryFrom
    \/ Adopt

Spec == Init /\ [][Next]_vars
\* ------------------------------------------------------------------------
\* Properties
\* ------------------------------------------------------------------------
\* The registry table as documented: variant, category name, status,
\* title, context type.
Registry ==
    {<<"Cancelled", "cancelled", 499, "Cancelled", "RequestInfo">>,
     <<"Unknown", "unknown", 500, "Unknown", "DebugInfo">>,
     <<"InvalidArgument", "invalid_argument", 400, "Invalid Argument", "Validation">>,
     <<"DeadlineExceeded", "deadline_exceeded", 504, "Deadline Exceeded", "RequestInfo">>,
     <<"NotFound", "not_found", 404, "Not Found", "ResourceInfo">>,
     <<"AlreadyExists", "already_exists", 409, "Already Exists", "ResourceInfo">>,
     <<"PermissionDenied", "permission_denied", 403, "Permission Denied", "ErrorInfo">>,
     <<"ResourceExhausted", "resource_exhausted", 429, "Resource Exhausted", "QuotaFailure">>,
     <<"FailedPrecondition", "failed_precondition", 400, "Failed Precondition",
       "PreconditionFailure">>,
     <<"Aborted", "aborted", 409, "Aborted", "ErrorInfo">>,
     <<"OutOfRange", "out_of_range", 400, "Out of Range", "Validation">>,
     <<"Unimplemented", "unimplemented", 501, "Unimplemented", "ErrorInfo">>,
     <<"Internal", "internal", 500, "Internal", "DebugInfo">>,
     <<"ServiceUnavailable", "service_unavailable", 503, "Unavailable", "RetryInfo">>,
     <<"DataLoss", "data_loss", 500, "Data Loss", "ResourceInfo">>,
     <<"Unauthenticated", "unauthenticated", 401, "Unauthenticated", "ErrorInfo">>}

Row(variant) == CHOOSE r \in Registry : r[1] = variant

RegistryNames == {r[2] : r \in Registry}

TypeUri(name) == GTS_TYPE_PREFIX \o name \o GTS_TYPE_SUFFIX

\* a Problem is in hand and try_from has been applied to it
Converted == problem.some /\ problem.v # Panic /\ result.some

\* err was built by a direct constructor and only with_message since
OnlyMessageSet ==
    /\ origin.kind = "direct"
    /\ err.some
    /\ ~err.v.resource_type.some
    /\ ~err.v.debug_info.some

\* C1: round-trip. For an error of any category built by its constructor
\* and any sequence of with_message calls, try_from(from_error(e)) succeeds
\* and the result has the gts_type, message and status_code of e.
C1_RoundTrip ==
    (OnlyMessageSet /\ mode = "from_error" /\ Converted) =>
        /\ result.v.ok
        /\ gts_type(result.v.v) = gts_type(err.v)
        /\ message(result.v.v) = message(err.v)
        /\ status_code(result.v.v) = status_code(err.v)

C1_Witness ==
    /\ OnlyMessageSet /\ mode = "from_error" /\ Converted
    /\ err.v.cat = "ServiceUnavailable"
    /\ err.v.message = "custom detail"
    /\ result.v.ok

\* C2: production conversion never leaks the debug payload. The Problem
\* from_error makes of an error carrying a debug payload has no debug and
\* equals the Problem of the same error without the payload; the From impl
\* gives the Problem from_error gives, and the same serialised JSON, which
\* has no debug key.
C2_ProductionOmitsDebug ==
    /\ (mode = "from_error" /\ err.some /\ problem.some /\ err.v.debug_info.some) =>
          /\ problem.v.debug = None
          /\ problem.v = from_error([err.v EXCEPT !.debug_info = None])
    /\ (mode = "from" /\ err.some /\ problem.some) =>
          /\ problem.v = from_error(err.v)
          /\ Ser_Problem(problem.v) = Ser_Problem(from_error(err.v))
          /\ "debug" \notin DOMAIN Ser_Problem(problem.v).obj

C2_Witness ==
    /\ mode = "from_error" /\ err.some /\ problem.some
    /\ err.v.debug_info.some
    /\ Len(err.v.debug_info.v.stack_entries) > 0

\* C3: debug mode is strictly additive. The Problem from_error_debug makes
\* has a debug field exactly when the error carries a debug payload; the
\* field is the object {detail, stack_entries} of that payload, entries in
\* order; every other field is that of from_error's Problem.
C3_DebugAdditive ==
    (mode = "from_error_debug" /\ err.some /\ problem.some /\ problem.v # Panic) =>
        LET p == problem.v
            q == from_error(err.v)
            d == err.v.debug_info
        IN  /\ p.debug.some <=> d.some
            /\ d.some =>
                 /\ IsObj(p.debug.v)
                 /\ DOMAIN p.debug.v.obj = {"detail", "stack_entries"}
                 /\ p.debug.v.obj["detail"] = JStr(d.v.detail)
                 /\ IsArr(p.debug.v.obj["stack_entries"])
                 /\ Len(p.debug.v.obj["stack_entries"].arr) = Len(d.v.stack_entries)
                 /\ \A i \in 1..Len(d.v.stack_entries) :
                       p.debug.v.obj["stack_entries"].arr[i] = JStr(d.v.stack_entries[i])
            /\ p.problem_type = q.problem_type
            /\ p.title = q.title
            /\ p.status = q.status
            /\ p.detail = q.detail
            /\ p.instance = q.instance
            /\ p.trace_id = q.trace_id
            /\ p.context = q.context

C3_Witness ==
    /\ mode = "from_error_debug" /\ err.some /\ problem.some
    /\ err.v.debug_info.some
    /\ Len(err.v.debug_info.v.stack_entries) > 0
    /\ problem.v.debug.some

\* C4: resource-type injection. When the error carries resource type X the
\* context of the Problem built in either mode is an object whose
\* resource_type member is the string X, also when the serialised context
\* value had a resource_type member of its own.
C4_ResourceTypeInjected ==
    (mode \in {"from_error", "from_error_debug"} /\ err.some /\ problem.some
       /\ problem.v # Panic /\ err.v.resource_type.some) =>
        /\ IsObj(problem.v.context)
        /\ "resource_type" \in DOMAIN problem.v.context.obj
        /\ problem.v.context.obj["resource_type"] = JStr(err.v.resource_type.v)

C4_Witness ==
    /\ mode = "from_error" /\ err.some /\ problem.some
    /\ err.v.cat = "NotFound"
    /\ err.v.resource_type.some
    /\ err.v.ctx.resource_type # err.v.resource_type.v
    /\ problem.v.context.obj["resource_type"] = JStr(err.v.resource_type.v)

\* C5 as stated: for an error without a resource type, in every category,
\* the context of from_error's Problem has no resource_type member.
C5_Original ==
    (mode = "from_error" /\ err.some /\ problem.some /\ ~err.v.resource_type.some) =>
        "resource_type" \notin DOMAIN problem.v.context.obj

\* C5 amended: for an error without a resource type the context of
\* from_error's Problem has no resource_type member in the 13 categories
\* whose context type is not ResourceInfo; in not_found, already_exists and
\* data_loss the member is there and is the ResourceInfo's own
\* resource_type field.
C5_UntaggedContext ==
    (mode = "from_error" /\ err.some /\ problem.some /\ problem.v # Panic
       /\ ~err.v.resource_type.some) =>
        /\ IsObj(problem.v.context)
        /\ IF Row(err.v.cat)[5] = "ResourceInfo"
           THEN /\ "resource_type" \in DOMAIN problem.v.context.obj
                /\ problem.v.context.obj["resource_type"] = JStr(err.v.ctx.resource_type)
           ELSE "resource_type" \notin DOMAIN problem.v.context.obj

C5_Witness ==
    /\ mode = "from_error" /\ err.some /\ problem.some
    /\ ~err.v.resource_type.some
    /\ err.v.cat = "Cancelled"
    /\ DOMAIN problem.v.context.obj = {"request_id"}

\* C6: exhaustiveness. Each category's status_code and title are the
\* values of the registry table whatever the message, context, resource
\* type and debug payload of the error, and its gts_type differs from the
\* gts_type of each of the other 15 categories.
C6_Exhaustive ==
    err.some =>
        /\ status_code(err.v) = Row(err.v.cat)[3]
        /\ title(err.v) = Row(err.v.cat)[4]
        /\ \A c \in Variants \ {err.v.cat} :
              gts_type([err.v EXCEPT !.cat = c]) # gts_type(err.v)

C6_Witness ==
    /\ err.some
    /\ err.v.cat = "FailedPrecondition"
    /\ err.v.message = "custom detail"
    /\ err.v.resource_type.some
    /\ err.v.debug_info.some

\* C7 as stated: for every category gts_type() is the fixed prefix, then
\* the name category_name() returns, then the fixed suffix.
C7_Original ==
    err.some =>
        gts_type(err.v) = GTS_TYPE_PREFIX \o category_name(err.v) \o GTS_TYPE_SUFFIX

\* The type strings of the model that are the prefix, a name and the suffix.
WellFormedTypes == {TypeUri(n) : n \in WireNames}

\* C8: malformed type rejection. For a Problem whose type does not start
\* with the fixed prefix or, the prefix removed, does not end with the fixed
\* suffix, try_from fails with InvalidType carrying the whole type string,
\* whatever the other fields are.
C8_MalformedType ==
    (Converted /\ problem.v.problem_type \notin WellFormedTypes) =>
        result.v = InvalidType(problem.v.problem_type)

C8_Witness ==
    /\ Converted
    /\ problem.v.problem_type = GTS_TYPE_PREFIX \o "v1~"
    /\ problem.v.debug = Some(JStr("oops"))
    /\ problem.v.context = JNull
    /\ result.v = InvalidType(GTS_TYPE_PREFIX \o "v1~")

\* C9 as stated: for a Problem whose type is prefix + name + suffix with a
\* name that is none of the 16 registry names, try_from fails with
\* UnknownCategory carrying that name, whatever context and debug hold.
C9_Original ==
    Converted =>
        \A n \in WireNames \ RegistryNames :
            problem.v.problem_type = TypeUri(n) => result.v = UnknownCategory(n)

\* the members a context object must have to be bound to context type T
\* (a Validation needs the member of one of its three shapes)
LacksRequired(T, obj) ==
    CASE T = "RequestInfo" -> "request_id" \notin DOMAIN obj
      [] T = "DebugInfo" -> ~({"detail", "stack_entries"} \subseteq DOMAIN obj)
      [] T = "Validation" ->
           {"field_violations", "format", "constraint"} \cap DOMAIN obj = {}
      [] T = "ResourceInfo" ->
           ~({"resource_type", "resource_name", "description"} \subseteq DOMAIN obj)
      [] T = "ErrorInfo" -> ~({"reason", "domain", "metadata"} \subseteq DOMAIN obj)
      [] T \in {"QuotaFailure", "PreconditionFailure"} -> "violations" \notin DOMAIN obj
      [] T = "RetryInfo" -> "retry_after_seconds" \notin DOMAIN obj

\* C10: context mismatch rejection. For a Problem whose type names a known
\* category c and whose context object lacks a required member of c's
\* context type, try_from fails with ContextDeserializationFailed whose
\* category is c.
C10_ContextMismatch ==
    Converted =>
        \A r \in Registry :
            (/\ problem.v.problem_type = TypeUri(r[2])
             /\ IsObj(problem.v.context)
             /\ LacksRequired(r[5], problem.v.context.obj)) =>
                result.v = ContextDeserializationFailed(r[2])

C10_Witness ==
    /\ Converted
    /\ problem.v.problem_type = TypeUri("not_found")
    /\ problem.v.context = JObj([unexpected |-> JStr("shape")])
    /\ problem.v.debug = None
    /\ result.v = ContextDeserializationFailed("not_found")

\* the category name the type string of the Problem in hand carries
NamedCategory == parse_category(problem.v.problem_type)

\* every member of the serialised context x is a member of the object j,
\* with the same value
CtxFrom(x, j) ==
    /\ IsObj(j)
    /\ \A k \in DOMAIN x.obj : k \in DOMAIN j.obj /\ j.obj[k] = x.obj[k]

\* C11: conversion is all-or-nothing. For every Problem, try_from returns
\* either an error of the category the type URI names, whose context
\* members are all taken from the Problem's context and whose message is
\* the detail, or exactly one of InvalidType, UnknownCategory and
\* ContextDeserializationFailed; it never panics.
C11_AllOrNothing ==
    Converted =>
        /\ result.v # Panic
        /\ IF result.v.ok
           THEN LET e == result.v.v
                IN  /\ NamedCategory.ok
                    /\ e.cat \in Variants
                    /\ Row(e.cat)[2] = NamedCategory.v
                    /\ gts_type(e) = problem.v.problem_type
                    /\ CtxFrom(to_value(Row(e.cat)[5], e.ctx), problem.v.context)
                    /\ message(e) = problem.v.detail
           ELSE \/ result.v = InvalidType(problem.v.problem_type)
                \/ NamedCategory.ok /\ result.v = UnknownCategory(NamedCategory.v)
                \/ NamedCategory.ok
                     /\ result.v = ContextDeserializationFailed(NamedCategory.v)

C11_Witness ==
    /\ Converted /\ mode = "wire"
    /\ problem.v.problem_type = TypeUri("data_loss")
    /\ problem.v.title = "Not Found"
    /\ problem.v.debug = Some(JObj([detail |-> JStr("no stack")]))
    /\ result.v = ContextDeserializationFailed("data_loss")

\* the debug values that De_DebugInfo accepts
WellFormedDebug(j) ==
    /\ IsObj(j)
    /\ {"detail", "stack_entries"} \subseteq DOMAIN j.obj
    /\ IsStr(j.obj["detail"])
    /\ IsArr(j.obj["stack_entries"])
    /\ \A i \in 1..Len(j.obj["stack_entries"].arr) : IsStr(j.obj["stack_entries"].arr[i])

\* C12: for a Problem whose type URI names a category, a debug field that
\* is present and malformed makes try_from fail with
\* ContextDeserializationFailed carrying that category; with the debug
\* field absent a successful result has debug_info() == None, and a failure
\* is the failure the same Problem gives with a well-formed debug field.
C12_DebugField ==
    (Converted /\ NamedCategory.ok) =>
        /\ (problem.v.debug.some /\ ~WellFormedDebug(problem.v.debug.v)) =>
              result.v = ContextDeserializationFailed(NamedCategory.v)
        /\ ~problem.v.debug.some =>
              /\ result.v.ok => debug_info(result.v.v) = None
              /\ ~result.v.ok =>
                    result.v = try_from([problem.v EXCEPT
                                   !.debug = Some(Ser_DebugInfo(DebugInfo_new("d")))])

C12_Witness ==
    /\ Converted /\ mode = "wire"
    /\ problem.v.problem_type = TypeUri("internal")
    /\ problem.v.context = Ser_DebugInfo(DebugInfo_new("bug"))
    /\ problem.v.debug = Some(JStr("oops"))
    /\ result.v = ContextDeserializationFailed("internal")

\* the error a caller builds directly for the generated function fn of tag
\* R called with arg, before tagging it
Direct(R, fn, arg) ==
    CASE fn = "not_found" -> not_found(ResourceInfo_new(R, arg))
      [] fn = "already_exists" ->
           already_exists(ResourceInfo_with_description(ResourceInfo_new(R, arg),
                                                        "Resource already exists"))
      [] fn = "data_loss" ->
           data_loss(ResourceInfo_with_description(ResourceInfo_new(R, arg),
                                                   "Data loss detected"))
      [] OTHER -> construct(fn, arg)

\* C13: generator equivalence. Every call Generated(R).c(arg) returns the
\* error built directly for c and tagged with with_resource_type(R): same
\* category, message and context, resource_type() == Some(R), no debug
\* payload.
C13_GeneratorEquivalence ==
    [][Generate =>
          \A fn \in DOMAIN origin'.call :
              LET R == origin'.tag
                  d == Direct(R, fn, origin'.call[fn])
                  g == err'.v
              IN  /\ g = with_resource_type(d, R)
                  /\ gts_type(g) = gts_type(d)
                  /\ status_code(g) = status_code(d)
                  /\ message(g) = message(d)
                  /\ g.ctx = d.ctx
                  /\ resource_type(g) = Some(R)
                  /\ debug_info(g) = None]_vars

C13_Witness ==
    /\ origin.kind = "generated"
    /\ "permission_denied" \in DOMAIN origin.call
    /\ err.some
    /\ err.v = with_resource_type(permission_denied(origin.call["permission_denied"]),
                                  origin.tag)
    /\ DOMAIN err.v.ctx.metadata # {}

\* C14 as stated: the generated type has a constructor for every one of the
\* 16 categories of the registry.
C14_Original ==
    \A r \in Registry : ENABLED (Generate /\ err'.v.cat = r[1])

\* the description each generated resource-identity constructor gives
GeneratedDescription(fn) ==
    CASE fn = "not_found" -> "Resource not found"
      [] fn = "already_exists" -> "Resource already exists"
      [] fn = "data_loss" -> "Data loss detected"

\* C15: generated resource-identity constructors. Generated(R).not_found(n),
\* .already_exists(n) and .data_loss(n) return an error whose context is the
\* ResourceInfo (R, n, description of the category), whose message is that
\* description and whose resource_type() is Some(R); the context of the
\* Problem from_error makes of it is exactly
\* {resource_type: R, resource_name: n, description}.
C15_GeneratedResourceIdentity ==
    [][/\ Generate =>
            \A fn \in DOMAIN origin'.call \cap {"not_found", "already_exists", "data_loss"} :
                LET e == err'.v
                IN  /\ e.ctx.resource_type = origin'.tag
                    /\ e.ctx.resource_name = origin'.call[fn]
                    /\ e.ctx.description = GeneratedDescription(fn)
                    /\ message(e) = GeneratedDescription(fn)
                    /\ resource_type(e) = Some(origin'.tag)
       /\ (origin.kind = "generated" /\ FromError
             /\ resource_type(err.v) = Some(origin.tag)) =>
            \A fn \in DOMAIN origin.call \cap {"not_found", "already_exists", "data_loss"} :
                problem'.v.context =
                    JObj([resource_type |-> JStr(origin.tag),
                          resource_name |-> JStr(origin.call[fn]),
                          description |-> JStr(GeneratedDescription(fn))])]_vars

C15_Witness ==
    /\ origin.kind = "generated"
    /\ "data_loss" \in DOMAIN origin.call
    /\ mode = "from_error" /\ problem.some
    /\ message(err.v) = "Data loss detected"
    /\ problem.v.context.obj["description"] = JStr("Data loss detected")
    /\ problem.v.context.obj["resource_type"] = JStr(origin.tag)

\* the constant default messages of the registry
DefaultMessage(fn) ==
    CASE fn = "cancelled" -> "Operation cancelled by the client"
      [] fn = "deadline_exceeded" -> "Operation did not complete within the allowed time"
      [] fn = "not_found" -> "Resource not found"
      [] fn = "permission_denied" -> "You do not have permission to perform this operation"
      [] fn = "resource_exhausted" -> "Quota exceeded"
      [] fn = "failed_precondition" -> "Operation precondition not met"
      [] fn = "aborted" -> "Operation aborted due to concurrency conflict"
      [] fn = "unimplemented" -> "This operation is not implemented"
      [] fn = "internal" -> "An internal error occurred. Please retry later."
      [] fn = "service_unavailable" -> "Service temporarily unavailable"
      [] fn = "unauthenticated" -> "Authentication required"

FixedMessageFns ==
    {"cancelled", "deadline_exceeded", "not_found", "permission_denied",
     "resource_exhausted", "failed_precondition", "aborted", "unimplemented",
     "internal", "service_unavailable", "unauthenticated"}

\* C16: fixed default messages. Each of the 11 constructors with a constant
\* default returns an error whose message() is that constant whatever
\* context is passed, and the context is the one passed.
C16_FixedDefaultMessages ==
    [][Construct =>
          \A fn \in DOMAIN origin'.call \cap FixedMessageFns :
              /\ message(err'.v) = DefaultMessage(fn)
              /\ err'.v.ctx = origin'.call[fn]]_vars

C16_Witness ==
    /\ origin.kind = "direct"
    /\ "not_found" \in DOMAIN origin.call
    /\ origin.call["not_found"].description = "User not found in database"
    /\ err.some
    /\ err.v.ctx = origin.call["not_found"]
    /\ message(err.v) = "Resource not found"

\* C17: derived default messages. unknown(d) has message d and the context
\* DebugInfo {detail: d, stack_entries: []}; invalid_argument and
\* out_of_range take the embedded string of the format and constraint shapes
\* and "Request validation failed" / "Value out of range" for the
\* field_violations shape; already_exists(ctx) and data_loss(ctx) have the
\* message ctx.description.
C17_DerivedDefaultMessages ==
    [][Construct =>
          \A fn \in DOMAIN origin'.call :
              LET arg == origin'.call[fn]
                  e == err'.v
              IN  /\ fn = "unknown" =>
                        /\ message(e) = arg
                        /\ Ser_DebugInfo(e.ctx) =
                              JObj([detail |-> JStr(arg), stack_entries |-> JArr(<<>>)])
                  /\ fn \in {"invalid_argument", "out_of_range"} =>
                        /\ e.ctx = arg
                        /\ arg.shape = "Format" => message(e) = arg.format
                        /\ arg.shape = "Constraint" => message(e) = arg.constraint
                        /\ arg.shape = "FieldViolations" =>
                              message(e) = IF fn = "invalid_argument"
                                           THEN "Request validation failed"
                                           ELSE "Value out of range"
                  /\ fn \in {"already_exists", "data_loss"} =>
                        /\ e.ctx = arg
                        /\ message(e) = arg.description]_vars

C17_Witness ==
    /\ origin.kind = "direct"
    /\ "out_of_range" \in DOMAIN origin.call
    /\ origin.call["out_of_range"].shape = "FieldViolations"
    /\ Len(origin.call["out_of_range"].field_violations) > 0
    /\ err.some
    /\ message(err.v) = "Value out of range"

\* the error in hand after the step has a resource type (a debug payload)
\* that the error in hand before it did not have
GainsResourceType ==
    /\ err'.some
    /\ resource_type(err'.v).some
    /\ ~err.some \/ resource_type(err.v) # resource_type(err'.v)

GainsDebugInfo ==
    /\ err'.some
    /\ debug_info(err'.v).some
    /\ ~err.some \/ debug_info(err.v) # debug_info(err'.v)

\* C18: every direct constructor returns an error with
\* resource_type() == None and debug_info() == None; an error comes to have
\* a resource type only by with_resource_type, a generated constructor or
\* try_from, and a debug payload only by with_debug_info or try_from.
C18_AbsentByDefault ==
    [][/\ Construct =>
            /\ resource_type(err'.v) = None
            /\ debug_info(err'.v) = None
       /\ GainsResourceType => WithResourceType \/ Generate \/ Adopt
       /\ GainsDebugInfo => WithDebugInfo \/ Adopt]_vars

C18_Witness ==
    /\ origin.kind = "direct"
    /\ "cancelled" \in DOMAIN origin.call
    /\ err.some
    /\ resource_type(err.v) = None
    /\ debug_info(err.v) = None
    /\ message(err.v) = DefaultMessage("cancelled")

\* what no builder changes: the category and the context
SameCategoryAndContext ==
    /\ gts_type(err'.v) = gts_type(err.v)
    /\ status_code(err'.v) = status_code(err.v)
    /\ title(err'.v) = title(err.v)
    /\ err'.v.cat = err.v.cat
    /\ err'.v.ctx = err.v.ctx

\* C19: builder frame. with_message(m) makes message() m and changes
\* nothing else, with_resource_type(rt) makes resource_type() Some(rt) and
\* changes nothing else, with_debug_info(d) makes debug_info() Some(d) and
\* changes nothing else, whatever the calls made before; none changes the
\* category or the context.
C19_BuilderFrame ==
    [][/\ WithMessage =>
            /\ \E m \in Messages :
                  err' = Some(with_message(err.v, m)) /\ message(err'.v) = m
            /\ SameCategoryAndContext
            /\ resource_type(err'.v) = resource_type(err.v)
            /\ debug_info(err'.v) = debug_info(err.v)
       /\ WithResourceType =>
            /\ \E rt \in ResourceTypes :
                  err' = Some(with_resource_type(err.v, rt))
                    /\ resource_type(err'.v) = Some(rt)
            /\ SameCategoryAndContext
            /\ message(err'.v) = message(err.v)
            /\ debug_info(err'.v) = debug_info(err.v)
       /\ WithDebugInfo =>
            /\ \E d \in DebugInfos :
                  err' = Some(with_debug_info(err.v, d)) /\ debug_info(err'.v) = Some(d)
            /\ SameCategoryAndContext
            /\ message(err'.v) = message(err.v)
            /\ resource_type(err'.v) = resource_type(err.v)]_vars

C19_Witness ==
    /\ origin.kind = "direct"
    /\ "out_of_range" \in DOMAIN origin.call
    /\ err.some
    /\ err.v.ctx = origin.call["out_of_range"]
    /\ message(err.v) = "custom detail"
    /\ resource_type(err.v) = Some("gts.cf.core.data.backup.v1")
    /\ debug_info(err.v).some
    /\ status_code(err.v) = 400

\* C20: the Problem from_error or from_error_debug builds has type
\* e.gts_type(), title e.title(), status e.status_code() and detail
\* e.message() as it is when the Problem is built.
C20_ProblemHead ==
    (mode \in {"from_error", "from_error_debug"} /\ err.some /\ problem.some
       /\ problem.v # Panic) =>
        /\ problem.v.problem_type = gts_type(err.v)
        /\ problem.v.title = title(err.v)
        /\ problem.v.status = status_code(err.v)
        /\ problem.v.detail = message(err.v)

C20_Witness ==
    /\ mode = "from_error_debug" /\ err.some /\ problem.some
    /\ err.v.cat = "Aborted"
    /\ message(err.v) = "custom detail"
    /\ problem.v.detail = "custom detail"
    /\ problem.v.status = 409
    /\ problem.v.title = "Aborted"

\* a Problem built from the error in hand, by from_error, the From impl or
\* from_error_debug
Built ==
    /\ mode \in {"from_error", "from", "from_error_debug"}
    /\ err.some
    /\ problem.some

\* C21: optional fields are omitted, never null. A Problem built by
\* from_error or from_error_debug has no instance and no trace_id; its
\* serialised object has no instance key and no trace_id key, has a debug
\* key exactly when debug mode was used on an error carrying a debug
\* payload, and has no member that is null.
C21_OptionalsOmitted ==
    (Built /\ problem.v # Panic) =>
        LET j == Ser_Problem(problem.v)
        IN  /\ problem.v.instance = None
            /\ problem.v.trace_id = None
            /\ "instance" \notin DOMAIN j.obj
            /\ "trace_id" \notin DOMAIN j.obj
            /\ "debug" \in DOMAIN j.obj <=>
                  (mode = "from_error_debug" /\ debug_info(err.v).some)
            /\ \A k \in DOMAIN j.obj : ~IsNull(j.obj[k])

C21_Witness ==
    /\ Built
    /\ mode = "from_error_debug"
    /\ ~debug_info(err.v).some
    /\ DOMAIN Ser_Problem(problem.v).obj = {"type", "title", "status", "detail", "context"}

\* C22: tagged round-trip. For an error of any category with
\* resource_type() == Some(R), try_from(from_error(e)) succeeds and the
\* result has resource_type() == Some(R).
C22_TaggedRoundTrip ==
    (mode = "from_error" /\ err.some /\ Converted /\ resource_type(err.v).some) =>
        /\ result.v.ok
        /\ resource_type(result.v.v) = resource_type(err.v)

C22_Witness ==
    /\ mode = "from_error" /\ err.some /\ Converted
    /\ err.v.cat = "Cancelled"
    /\ resource_type(err.v) = Some("gts.cf.core.users.user.v1")
    /\ DOMAIN problem.v.context.obj = {"request_id", "resource_type"}
    /\ result.v.ok

\* C23 as stated: for an error of any category with
\* resource_type() == None, the error try_from(from_error(e)) returns has
\* resource_type() == None.
C23_Original ==
    (mode = "from_error" /\ err.some /\ Converted /\ ~resource_type(err.v).some) =>
        /\ result.v.ok
        /\ resource_type(result.v.v) = None

\* the public fields of the context of error e, as serialised
ContextFields(e) == to_value(CtxType(e.cat), e.ctx)

\* C24 as stated: for an error of any category, tagged or untagged, the
\* context of the error try_from(from_error(e)) returns has exactly the
\* field values of e's context.
C24_Original ==
    (mode = "from_error" /\ err.some /\ Converted) =>
        /\ result.v.ok
        /\ ContextFields(result.v.v) = ContextFields(err.v)

\* C25: debug round-trip. For an error carrying the debug payload d,
\* try_from(from_error_debug(e)) has a debug payload with d's detail and d's
\* stack entries in order, and try_from(from_error(e)) has none.
C25_DebugRoundTrip ==
    (err.some /\ Converted /\ debug_info(err.v).some) =>
        /\ mode = "from_error_debug" =>
              /\ result.v.ok
              /\ debug_info(result.v.v).some
              /\ debug_info(result.v.v).v.detail = debug_info(err.v).v.detail
              /\ debug_info(result.v.v).v.stack_entries
                    = debug_info(err.v).v.stack_entries
        /\ mode = "from_error" =>
              /\ result.v.ok
              /\ debug_info(result.v.v) = None

C25_Witness ==
    /\ mode = "from_error_debug" /\ err.some /\ Converted
    /\ debug_info(err.v).some
    /\ debug_info(err.v).v.stack_entries = <<"repo.rs:42">>
    /\ result.v.ok
    /\ debug_info(result.v.v).v.stack_entries = <<"repo.rs:42">>

\* C26: on success try_from builds the variant from the type URI and the
\* payload only. message() is the Problem's detail; resource_type() is the
\* context's resource_type member when that is a string and None otherwise;
\* debug_info() is the parsed debug field or None; status_code() and
\* title() are the category's; a Problem that differs only in title, status,
\* instance and trace_id converts to the same result.
C26_PayloadOnly ==
    (Converted /\ result.v.ok) =>
        LET e == result.v.v
            p == problem.v
        IN  /\ message(e) = p.detail
            /\ resource_type(e) =
                  IF IsObj(p.context) /\ "resource_type" \in DOMAIN p.context.obj
                       /\ IsStr(p.context.obj["resource_type"])
                  THEN Some(p.context.obj["resource_type"].str)
                  ELSE None
            /\ debug_info(e).some <=> p.debug.some
            /\ p.debug.some => Ser_DebugInfo(debug_info(e).v) = p.debug.v
            /\ gts_type(e) = p.problem_type
            /\ status_code(e) = Row(e.cat)[3]
            /\ title(e) = Row(e.cat)[4]
            /\ \A h \in WireHeads : \A o1 \in WireOptionals : \A o2 \in WireOptionals :
                  try_from([p EXCEPT !.title = h.title, !.status = h.status,
                                     !.instance = o1, !.trace_id = o2]) = result.v

C26_Witness ==
    /\ Converted /\ mode = "wire" /\ result.v.ok
    /\ problem.v.problem_type = TypeUri("cancelled")
    /\ problem.v.title = "Not Found"
    /\ problem.v.status = 404
    /\ problem.v.context = JObj([request_id |-> JStr("req-1"), resource_type |-> JNum(7)])
    /\ resource_type(result.v.v) = None
    /\ status_code(result.v.v) = 499
    /\ message(result.v.v) = "test"

\* the context object o has the required key of the field_violations
\* (format, constraint) shape with the right type
FitsFieldViolations(o) ==
    /\ "field_violations" \in DOMAIN o
    /\ IsArr(o["field_violations"])
    /\ \A i \in 1..Len(o["field_violations"].arr) :
          De_FieldViolation(o["field_violations"].arr[i]).ok

FitsFormat(o) == "format" \in DOMAIN o /\ IsStr(o["format"])

FitsConstraint(o) == "constraint" \in DOMAIN o /\ IsStr(o["constraint"])

\* C27: a Validation context is bound to the first of the shapes
\* field_violations, format, constraint whose key the object holds with the
\* right type, other keys ignored; an object holding none of the three keys
\* fails with ContextDeserializationFailed for invalid_argument and
\* out_of_range.
C27_ValidationShapeOrder ==
    (Converted /\ IsObj(problem.v.context)) =>
        \A n \in {"invalid_argument", "out_of_range"} :
            problem.v.problem_type = TypeUri(n) =>
                LET o == problem.v.context.obj
                IN  /\ {"field_violations", "format", "constraint"} \cap DOMAIN o = {} =>
                          result.v = ContextDeserializationFailed(n)
                    /\ (~problem.v.debug.some \/ WellFormedDebug(problem.v.debug.v)) =>
                          IF FitsFieldViolations(o)
                          THEN /\ result.v.ok
                               /\ result.v.v.ctx.shape = "FieldViolations"
                               /\ Len(result.v.v.ctx.field_violations)
                                     = Len(o["field_violations"].arr)
                          ELSE IF FitsFormat(o)
                          THEN /\ result.v.ok
                               /\ result.v.v.ctx = Validation_format(o["format"].str)
                          ELSE IF FitsConstraint(o)
                          THEN /\ result.v.ok
                               /\ result.v.v.ctx = Validation_constraint(o["constraint"].str)
                          ELSE result.v = ContextDeserializationFailed(n)

C27_Witness ==
    /\ Converted /\ mode = "wire"
    /\ problem.v.problem_type = TypeUri("out_of_range")
    /\ problem.v.context = JObj([format |-> JStr("f"), constraint |-> JStr("c"),
                                 resource_type |-> JStr("gts.cf.core.users.user.v1")])
    /\ result.v.ok
    /\ result.v.v.ctx = Validation_format("f")

\* C28: the wire form is a fixed point of the round-trip. When
\* try_from(from_error(e)) succeeds with e', from_error(e') is the Problem
\* from_error(e), field for field; likewise with from_error_debug in both
\* places.
C28_FixedPoint ==
    (err.some /\ Converted /\ result.v.ok) =>
        /\ mode = "from_error" =>
              /\ problem.v = from_error(err.v)
              /\ from_error(result.v.v) = problem.v
        /\ mode = "from_error_debug" =>
              /\ problem.v = from_error_debug(err.v)
              /\ from_error_debug(result.v.v) = problem.v

C28_Witness ==
    /\ err.some /\ Converted /\ result.v.ok
    /\ mode = "from_error_debug"
    /\ err.v.cat = "DataLoss"
    /\ err.v.ctx.description = "User not found in database"
    /\ resource_type(err.v).some
    /\ resource_type(err.v).v # err.v.ctx.resource_type
    /\ debug_info(err.v).some
    /\ from_error_debug(result.v.v) = problem.v

\* C29: CanonicalError -> Problem conversion is total. For every error in
\* hand, however it was obtained, the serialised context is a JSON object
\* and from_error and from_error_debug return a Problem, whose context is
\* an object, without panicking.
C29_ConversionTotal ==
    /\ err.some =>
          /\ IsObj(ContextFields(err.v))
          /\ from_error(err.v) # Panic
          /\ from_error_debug(err.v) # Panic
    /\ Built =>
          /\ problem.v # Panic
          /\ IsObj(problem.v.context)

C29_Witness ==
    /\ Built
    /\ origin.kind = "try_from"
    /\ err.v.cat = "ServiceUnavailable"
    /\ resource_type(err.v).some
    /\ mode = "from_error_debug"
    /\ DOMAIN problem.v.context.obj = {"retry_after_seconds", "resource_type"}

\* the variants whose gts_type() is the type string ty
Emitters(ty) == {v \in Variants : gts_type([cat |-> v]) = ty}

====
